---- MODULE Spec2Model ----
(***************************************************************************)
(* latinChat: a websocket chat relay on a DynamoDB table.                  *)
(*                                                                         *)
(* The table holds rows (PK, SK): PK is a connection id, SK is the text    *)
(* "username_<name>" or "room_<room>".  Every inbound websocket event is   *)
(* handled by one invocation (a worker) that reads and writes the table    *)
(* one request at a time and pushes messages through the websocket API.    *)
(*                                                                         *)
(* Strings are sequences of one-character strings, so that the formatting  *)
(* of sort keys, str.split, str.lower and the sort order of a query are    *)
(* computed as the code computes them.                                     *)
(***************************************************************************)
EXTENDS Integers, Sequences, FiniteSets, TLC

VARIABLES
    table,   \* the DynamoDB table: a set of rows [PK, SK]
    status,  \* per connection id: "new", "open" or "closed" (transport side),
             \* and "ended" once its disconnect event has been dispatched
    wk       \* per worker: the event it handles and how far it got

vars == <<table, status, wk>>

----------------------------------------------------------------------------
(* Characters and strings *)

UpperChars == <<"A","B","C","D","E","F","G","H","I","J","K","L","M",
                "N","O","P","Q","R","S","T","U","V","W","X","Y","Z">>

LowerChars == <<"a","b","c","d","e","f","g","h","i","j","k","l","m",
                "n","o","p","q","r","s","t","u","v","w","x","y","z">>

\* The characters in code-point order (the order DynamoDB sorts keys in).
Alphabet == <<" ", "/">> \o UpperChars \o <<"_">> \o LowerChars

CodeMap == [c \in {Alphabet[i] : i \in 1..Len(Alphabet)} |->
               CHOOSE i \in 1..Len(Alphabet) : Alphabet[i] = c]

Code(c) == CodeMap[c]

\* s < t as Python and DynamoDB compare strings.
RECURSIVE StrLess(_, _)
StrLess(s, t) ==
    IF t = <<>> THEN FALSE
    ELSE IF s = <<>> THEN TRUE
    ELSE IF Head(s) # Head(t) THEN Code(Head(s)) < Code(Head(t))
    ELSE StrLess(Tail(s), Tail(t))

LowerMap == [c \in {UpperChars[i] : i \in 1..Len(UpperChars)} |->
                LowerChars[CHOOSE i \in 1..Len(UpperChars) : UpperChars[i] = c]]

LowerChar(c) == IF c \in DOMAIN LowerMap THEN LowerMap[c] ELSE c

\* str.lower()
Lower(s) == [i \in 1..Len(s) |-> LowerChar(s[i])]

\* str.startswith(c) for a one-character prefix
StartsWith(s, c) == Len(s) >= 1 /\ s[1] = c

HasChar(s, c) == \E i \in 1..Len(s) : s[i] = c

FirstIndex(s, c) == CHOOSE i \in 1..Len(s) : s[i] = c /\ \A j \in 1..(i-1) : s[j] # c

\* str.split(sep): every occurrence of sep separates two parts, empty parts kept.
RECURSIVE Split(_, _)
Split(s, sep) ==
    IF ~HasChar(s, sep) THEN <<s>>
    ELSE LET i == FirstIndex(s, sep)
         IN  <<SubSeq(s, 1, i-1)>> \o Split(SubSeq(s, i+1, Len(s)), sep)

\* str.split(sep, 1): at most one split, at the first occurrence of sep.
Split1(s, sep) ==
    IF ~HasChar(s, sep) THEN <<s>>
    ELSE LET i == FirstIndex(s, sep)
         IN  <<SubSeq(s, 1, i-1), SubSeq(s, i+1, Len(s))>>

S_username == <<"u","s","e","r","n","a","m","e">>
S_room     == <<"r","o","o","m">>

\* 'username_%s' % name and 'room_%s' % room
Fmt_username(name) == S_username \o <<"_">> \o name
Fmt_room(room)     == S_room \o <<"_">> \o room

\* An outbound message: the format string and the values substituted in it.
Msg(fmt, args) == [fmt |-> fmt, args |-> args]

----------------------------------------------------------------------------
(* The table (storage.py) *)

Row(pk, sk) == [PK |-> pk, SK |-> sk]

\* table.put_item: a row with the same key is overwritten.
put_item(tbl, pk, sk) == tbl \cup {Row(pk, sk)}

\* table.delete_item: deleting an absent key is not an error.
delete_item(tbl, pk, sk) == tbl \ {Row(pk, sk)}

\* The elements of a finite set of strings in ascending order.
RECURSIVE SortStrings(_)
SortStrings(S) ==
    IF S = {} THEN <<>>
    ELSE LET m == CHOOSE x \in S : \A y \in S \ {x} : StrLess(x, y)
         IN  <<m>> \o SortStrings(S \ {m})

\* The elements of a finite set of connection ids in ascending order.
RECURSIVE SortIds(_)
SortIds(S) ==
    IF S = {} THEN <<>>
    ELSE LET m == CHOOSE x \in S : \A y \in S : x <= y
         IN  <<m>> \o SortIds(S \ {m})

\* table.query(PK = connection_id): the sort keys of the partition, ascending.
query_pk(tbl, pk) == SortStrings({r.SK : r \in {x \in tbl : x.PK = pk}})

\* A dict as a set of <<key, value>> pairs with distinct keys.
HasKey(d, k) == \E p \in d : p[1] = k
Get(d, k)    == (CHOOSE p \in d : p[1] = k)[2]

\* The dict comprehension of get_record_by_connection: for every item in query
\* order, key SK.split('_', 1)[0] is set to SK.split('_', 1)[1]; a later item
\* with the same key replaces an earlier one.
RECURSIVE DictOf(_, _)
DictOf(items, d) ==
    IF items = <<>> THEN d
    ELSE LET parts == Split1(Head(items), "_")
             k     == parts[1]
             v     == parts[2]
         IN  DictOf(Tail(items), {p \in d : p[1] # k} \cup {<<k, v>>})

get_record_by_connection(tbl, pk) == DictOf(query_pk(tbl, pk), {})

\* query on the ReverseLookup index (SK = 'room_' + room): the PKs, in the
\* order of the index's sort key, which is PK.
get_connection_ids_by_room(tbl, room) ==
    SortIds({r.PK : r \in {x \in tbl : x.SK = Fmt_room(room)}})

\* Storage.list_rooms without the test that the sort key starts with 'room_'.
list_rooms_of_all_rows(tbl) == {Split1(r.SK, "_")[2] : r \in tbl}

\* scan, then the set of SK.split('_', 1)[1] over the items whose SK starts with 'room_'.
list_rooms(tbl) ==
    {Split1(r.SK, "_")[2] : r \in {x \in tbl : SubSeq(x.SK, 1, 5) = S_room \o <<"_">>}}

----------------------------------------------------------------------------
(* The requests one invocation still has to make, in order.                *)
(* Each is one call on the table or on the websocket API.                  *)

NoMsg == Msg("", <<>>)

Op(op, cid, sk, msg, ids, k) ==
    [op |-> op, cid |-> cid, sk |-> sk, msg |-> msg, ids |-> ids, k |-> k]

\* table.query(PK = cid) of Handler.handle
OpLoad(cid)        == Op("load", cid, <<>>, NoMsg, <<>>, "")
OpPut(cid, sk)     == Op("put_item", cid, sk, NoMsg, <<>>, "")
OpDel(cid, sk)     == Op("delete_item", cid, sk, NoMsg, <<>>, "")
\* websocket_api.send(to, msg); ids is the list given to broadcast, <<>> for a plain send
OpSend(to, msg, ids) == Op("send", to, <<>>, msg, ids, "")
\* send(to, '\n'.join(result)) of Handler._list
OpSendResult(to)   == Op("send", to, <<>>, NoMsg, <<>>, "result")
\* get_connection_ids_by_room(room) by the handler of cid; k says what the caller
\* does with the list, msg is what it then broadcasts
OpMembers(cid, room, k, msg) == Op("members", cid, room, msg, <<>>, k)
\* the query and the deletes of delete_connection(cid)
OpDcQuery(cid)     == Op("dc_query", cid, <<>>, NoMsg, <<>>, "")
OpDcDel(cid, sk)   == Op("dc_delete", cid, sk, NoMsg, <<>>, "")
\* get_record_by_connection(c_id)['username'] of Handler._list
OpLsGet(cid)       == Op("ls_get", cid, <<>>, NoMsg, <<>>, "")
OpScan             == Op("scan", 0, <<>>, NoMsg, <<>>, "")

\* What a piece of handler code amounts to: the requests it makes, or the
\* exception it raises before making any.
Do(todo)   == [todo |-> todo, err |-> "none"]
Raise(exc) == [todo |-> <<>>, err |-> exc]

----------------------------------------------------------------------------
(* sender.py *)

\* Sender.broadcast: one send per id, in list order.
broadcast(connection_ids, message) ==
    [i \in 1..Len(connection_ids) |-> OpSend(connection_ids[i], message, connection_ids)]

\* Storage.delete_connection: the query of the partition comes first.
delete_connection(connection_id) == <<OpDcQuery(connection_id)>>

\* Sender.send, the except branch: WebsocketDisconnectedError is answered by
\* delete_connection(e.connection_id).
send_disconnected(connection_id) == delete_connection(connection_id)

\* Storage.delete_connection, the loop: one delete_item per item of the query.
delete_connection_items(connection_id, items) ==
    [i \in 1..Len(items) |-> OpDcDel(connection_id, items[i])]

----------------------------------------------------------------------------
(* storage.py, the writers *)

\* Storage.create_connection
create_connection(connection_id) == <<OpPut(connection_id, Fmt_username(<<>>))>>

\* Storage.set_username without the delete of the old row.
set_username_keeping_old(connection_id, old_name, username) ==
    <<OpPut(connection_id, Fmt_username(username))>>

\* Storage.set_username: delete the old row, then put the new one.
set_username(connection_id, old_name, username) ==
    << OpDel(connection_id, Fmt_username(old_name)),
       OpPut(connection_id, Fmt_username(username)) >>

\* Storage.set_room
set_room(connection_id, room) == <<OpPut(connection_id, Fmt_room(room))>>

\* Storage.remove_room
remove_room(connection_id, room) == <<OpDel(connection_id, Fmt_room(room))>>

----------------------------------------------------------------------------
(* handler.py *)

C_help == <<"h","e","l","p">>
C_nick == <<"n","i","c","k">>
C_join == <<"j","o","i","n">>
C_room == <<"r","o","o","m">>
C_quit == <<"q","u","i","t">>
C_ls   == <<"l","s">>

\* Handler._command_table
command_table == {C_help, C_nick, C_join, C_room, C_quit, C_ls}

\* Handler._handle_login_message
handle_login_message(connection_id, message) ==
    Do( set_username(connection_id, <<>>, message)
        \o <<OpSend(connection_id,
                    Msg("Using nickname: %s\nType /help for list of commands.", <<message>>),
                    <<>>)>> )

\* Handler._help
help(connection_id) == Do(<<OpSend(connection_id, Msg("Commands available: ...", <<>>), <<>>)>>)

\* Handler._quit, as a list of requests (it raises nothing of its own).
quit_ops(connection_id, record) ==
    IF ~HasKey(record, S_room) THEN <<>>
    ELSE LET room_name == Get(record, S_room)
         IN  remove_room(connection_id, room_name)
             \o << OpSend(connection_id, Msg("Left chat room \"%s\"", <<room_name>>), <<>>),
                   OpMembers(connection_id, room_name, "broadcast",
                             Msg("%s left room.", <<Get(record, S_username)>>)) >>

\* Handler._quit
quit(connection_id, record) == Do(quit_ops(connection_id, record))

\* Handler._join without its call of _quit.
join_without_quit(connection_id, args, record) ==
    IF args = <<>> THEN Raise("IndexError")
    ELSE Do(<<OpMembers(connection_id, args[1], "join",
                        Msg("%s joined room.", <<Get(record, S_username)>>))>>)

\* Handler._join: args[0] raises IndexError on an empty argument list.
join(connection_id, args, record) ==
    IF args = <<>> THEN Raise("IndexError")
    ELSE LET room == args[1]
         IN  Do( quit_ops(connection_id, record)
                 \o <<OpMembers(connection_id, room, "join",
                                Msg("%s joined room.", <<Get(record, S_username)>>))>> )

\* Handler._join after get_connection_ids_by_room returned room_connections.
join_rest(connection_id, room, room_connections, message) ==
    Do( set_room(connection_id, room)
        \o <<OpSend(connection_id, Msg("Joined chat room \"%s\"", <<room>>), <<>>)>>
        \o broadcast(room_connections, message) )

\* `if room:` on record.get('room'): a missing room and the room '' are both false.
Truthy(record, key) == HasKey(record, key) /\ Get(record, key) # <<>>

\* Handler._nick writing the name back when it is called without an argument.
nick_rewriting_name(connection_id, args, record) ==
    LET old == Get(record, S_username)
        new == IF args = <<>> THEN old ELSE args[1]
    IN  Do( set_username(connection_id, old, new)
            \o <<OpSend(connection_id,
                        Msg((IF args = <<>> THEN "Current nickname: %s" ELSE "Nickname is: %s"),
                            <<new>>), <<>>)>>
            \o (IF args # <<>> /\ Truthy(record, S_room)
                THEN <<OpMembers(connection_id, Get(record, S_room), "nick",
                                 Msg("%s is now known as %s.", <<old, new>>))>>
                ELSE <<>>) )

\* Handler._nick
nick(connection_id, args, record) ==
    IF args = <<>>
    THEN Do(<<OpSend(connection_id,
                     Msg("Current nickname: %s", <<Get(record, S_username)>>), <<>>)>>)
    ELSE LET new == args[1]
             old == Get(record, S_username)
         IN  Do( set_username(connection_id, old, new)
                 \o <<OpSend(connection_id, Msg("Nickname is: %s", <<new>>), <<>>)>>
                 \o (IF Truthy(record, S_room)
                     THEN <<OpMembers(connection_id, Get(record, S_room), "nick",
                                      Msg("%s is now known as %s.", <<old, new>>))>>
                     ELSE <<>>) )

\* list.remove(x): the list without the first occurrence of x.
ListRemove(l, x) ==
    LET i == CHOOSE j \in 1..Len(l) : l[j] = x /\ \A m \in 1..(j-1) : l[m] # x
    IN  SubSeq(l, 1, i-1) \o SubSeq(l, i+1, Len(l))

\* Handler._nick after get_connection_ids_by_room returned room_connections:
\* room_connections.remove(connection_id) raises ValueError when it is not in the list.
nick_rest(connection_id, room_connections, message) ==
    IF \A j \in 1..Len(room_connections) : room_connections[j] # connection_id
    THEN Raise("ValueError")
    ELSE Do(broadcast(ListRemove(room_connections, connection_id), message))

\* Handler._room
room(connection_id, record) ==
    IF HasKey(record, S_room)
    THEN Do(<<OpSend(connection_id, Msg("%s", <<Get(record, S_room)>>), <<>>)>>)
    ELSE Do(<<OpSend(connection_id,
                     Msg("Not currently in a room. Type /join {room_name} to do so.", <<>>),
                     <<>>)>>)

\* Handler._list
list(connection_id, record) ==
    IF Truthy(record, S_room)
    THEN Do(<<OpMembers(connection_id, Get(record, S_room), "ls", NoMsg)>>)
    ELSE Do(<<OpScan, OpSendResult(connection_id)>>)

\* Handler._list after get_connection_ids_by_room returned: one lookup per member.
list_rest(connection_id, room_connections) ==
    Do( [i \in 1..Len(room_connections) |-> OpLsGet(room_connections[i])]
        \o <<OpSendResult(connection_id)>> )

\* Handler._handle_text
handle_text(connection_id, message, record) ==
    IF ~HasKey(record, S_room)
    THEN Do(<<OpSend(connection_id, Msg("Cannot send message if not in chatroom.", <<>>), <<>>)>>)
    ELSE Do(<<OpMembers(connection_id, Get(record, S_room), "broadcast",
                        Msg("%s: %s", <<Get(record, S_username), message>>))>>)

\* Handler._handle_command: self._sender(...) calls the Sender object, which is
\* not callable, so the unknown-command branch raises TypeError.
handle_command(connection_id, message, record) ==
    LET split        == Split(message, " ")
        command_name == Lower(Head(split))
        args         == Tail(split)
    IN  IF command_name \notin command_table THEN Raise("TypeError")
        ELSE IF command_name = C_help THEN help(connection_id)
        ELSE IF command_name = C_nick THEN nick(connection_id, args, record)
        ELSE IF command_name = C_join THEN join(connection_id, args, record)
        ELSE IF command_name = C_room THEN room(connection_id, record)
        ELSE IF command_name = C_quit THEN quit(connection_id, record)
        ELSE list(connection_id, record)

\* Handler._handle_message
handle_message(connection_id, message, record) ==
    IF StartsWith(message, "/")
    THEN handle_command(connection_id, Tail(message), record)
    ELSE handle_text(connection_id, message, record)

\* Handler.handle after get_record_by_connection returned record:
\* record['username'] raises KeyError when the partition has no username row.
handle(connection_id, message, record) ==
    IF ~HasKey(record, S_username) THEN Raise("KeyError")
    ELSE IF Get(record, S_username) = <<>>
    THEN handle_login_message(connection_id, message)
    ELSE handle_message(connection_id, message, record)

\* What the caller of get_connection_ids_by_room does with the list.
members_rest(op, room_connections) ==
    IF op.k = "join" THEN join_rest(op.cid, op.sk, room_connections, op.msg)
    ELSE IF op.k = "nick" THEN nick_rest(op.cid, room_connections, op.msg)
    ELSE IF op.k = "ls" THEN list_rest(op.cid, room_connections)
    ELSE Do(broadcast(room_connections, op.msg))

----------------------------------------------------------------------------
(* Workers: one per invocation of connect, disconnect or message (app.py) *)

Conns   == DOMAIN status
Workers == DOMAIN wk

\* The transport reports these connections as gone.
Gone(c) == status[c] \in {"closed", "ended"}

Begin(kind, cid, text, todo) ==
    [kind |-> kind, cid |-> cid, text |-> text, record |-> {}, todo |-> todo,
     log |-> <<>>, result |-> "none", acc |-> <<>>]

IdleWorker == Begin("idle", 0, <<>>, <<>>)

Idle(w) == wk[w].todo = <<>>

\* The connect handler of c has returned (API Gateway delivers nothing else for
\* a connection before that).
ConnectDone(c) ==
    \A w \in Workers : ~(wk[w].kind = "connect" /\ wk[w].cid = c /\ ~Idle(w))

\* The worker after the request at the head of its list: `plan` is what the
\* code does next with the answer, before the requests that were already due.
After(w, plan, rec, acc, log) ==
    LET todo == IF plan.err = "none" THEN plan.todo \o Tail(wk[w].todo) ELSE <<>>
    IN  [wk[w] EXCEPT !.todo   = todo,
                      !.record = rec,
                      !.acc    = acc,
                      !.log    = log,
                      !.result = IF plan.err # "none" THEN plan.err
                                 ELSE IF todo = <<>> THEN "ok" ELSE "none"]

\* app.py connect
Connect(w, c) ==
    /\ Idle(w)
    /\ status[c] = "new"
    /\ status' = [status EXCEPT ![c] = "open"]
    /\ wk' = [wk EXCEPT ![w] = Begin("connect", c, <<>>, create_connection(c))]
    /\ UNCHANGED table

\* The peer goes away: from now on a send to c raises WebsocketDisconnectedError.
Close(c) ==
    /\ status[c] = "open"
    /\ status' = [status EXCEPT ![c] = "closed"]
    /\ UNCHANGED <<table, wk>>

\* app.py disconnect
Disconnect(w, c) ==
    /\ Idle(w)
    /\ status[c] = "closed"
    /\ ConnectDone(c)
    /\ status' = [status EXCEPT ![c] = "ended"]
    /\ wk' = [wk EXCEPT ![w] = Begin("disconnect", c, <<>>, delete_connection(c))]
    /\ UNCHANGED table

\* app.py message: the body t arrived from c (possibly sent just before c went away).
Message(w, c, t) ==
    /\ Idle(w)
    /\ status[c] \in {"open", "closed"}
    /\ ConnectDone(c)
    /\ wk' = [wk EXCEPT ![w] = Begin("message", c, t, <<OpLoad(c)>>)]
    /\ UNCHANGED <<table, status>>

\* What the code does with the answer of the query at the head of the list;
\* rec is get_record_by_connection(op.cid) where the query is that one.
QueryPlan(w, op, rec) ==
    IF op.op = "load"
    THEN handle(op.cid, wk[w].text, rec)
    ELSE IF op.op = "members"
    THEN members_rest(op, get_connection_ids_by_room(table, op.sk))
    ELSE IF op.op = "dc_query"
    THEN Do(delete_connection_items(op.cid, query_pk(table, op.cid)))
    ELSE IF HasKey(rec, S_username)
    THEN Do(<<>>)
    ELSE Raise("KeyError")

\* One table.query: of the partition of a connection, or of the ReverseLookup index.
Query(w) ==
    /\ ~Idle(w)
    /\ LET op == Head(wk[w].todo)
       IN  /\ op.op \in {"load", "members", "dc_query", "ls_get"}
           /\ LET got  == IF op.op \in {"load", "ls_get"}
                          THEN get_record_by_connection(table, op.cid)
                          ELSE {}
                  plan == QueryPlan(w, op, got)
                  rec  == IF op.op = "load" THEN got ELSE wk[w].record
                  acc  == IF op.op = "ls_get" /\ plan.err = "none"
                          THEN Append(wk[w].acc, Get(got, S_username))
                          ELSE wk[w].acc
              IN  wk' = [wk EXCEPT ![w] = After(w, plan, rec, acc, wk[w].log)]
    /\ UNCHANGED <<table, status>>

\* The orders in which a Python set can be iterated.
Orderings(S) ==
    {s \in [1..Cardinality(S) -> S] : \A x \in S : \E i \in 1..Cardinality(S) : s[i] = x}

\* table.scan of list_rooms
Scan(w) ==
    /\ ~Idle(w)
    /\ Head(wk[w].todo).op = "scan"
    /\ \E result \in Orderings(list_rooms(table)) :
          wk' = [wk EXCEPT ![w] = After(w, Do(<<>>), wk[w].record, result, wk[w].log)]
    /\ UNCHANGED <<table, status>>

\* table.put_item
PutItem(w) ==
    /\ ~Idle(w)
    /\ LET op == Head(wk[w].todo)
       IN  /\ op.op = "put_item"
           /\ table' = put_item(table, op.cid, op.sk)
    /\ wk' = [wk EXCEPT ![w] = After(w, Do(<<>>), wk[w].record, wk[w].acc, wk[w].log)]
    /\ UNCHANGED status

\* table.delete_item
DeleteItem(w) ==
    /\ ~Idle(w)
    /\ LET op == Head(wk[w].todo)
       IN  /\ op.op \in {"delete_item", "dc_delete"}
           /\ table' = delete_item(table, op.cid, op.sk)
    /\ wk' = [wk EXCEPT ![w] = After(w, Do(<<>>), wk[w].record, wk[w].acc, wk[w].log)]
    /\ UNCHANGED status

\* The message of a send: '\n'.join(result) for Handler._list.
Outbound(w, op) == IF op.k = "result" THEN Msg("\\n.join", wk[w].acc) ELSE op.msg

Sent(w, op, out) ==
    Append(wk[w].log, [to |-> op.cid, msg |-> Outbound(w, op), out |-> out, ids |-> op.ids])

\* Sender.send without the cleanup of a disconnected peer.
send_without_cleanup(connection_id, out) ==
    IF out = "error" THEN Raise("SendError") ELSE Do(<<>>)

\* Sender.send, what follows websocket_api.send: nothing when it returns,
\* delete_connection on WebsocketDisconnectedError; any other exception leaves
\* send, broadcast and the handler.
send(connection_id, out) ==
    IF out = "ok" THEN Do(<<>>)
    ELSE IF out = "gone" THEN Do(send_disconnected(connection_id))
    ELSE Raise("SendError")

\* websocket_api.send delivers the message.
SendOk(w) ==
    /\ ~Idle(w)
    /\ LET op == Head(wk[w].todo)
       IN  /\ op.op = "send"
           /\ ~Gone(op.cid)
           /\ wk' = [wk EXCEPT ![w] = After(w, send(op.cid, "ok"), wk[w].record, wk[w].acc,
                                            Sent(w, op, "ok"))]
    /\ UNCHANGED <<table, status>>

\* websocket_api.send raises WebsocketDisconnectedError.
SendGone(w) ==
    /\ ~Idle(w)
    /\ LET op == Head(wk[w].todo)
       IN  /\ op.op = "send"
           /\ Gone(op.cid)
           /\ wk' = [wk EXCEPT ![w] = After(w, send(op.cid, "gone"), wk[w].record, wk[w].acc,
                                            Sent(w, op, "gone"))]
    /\ UNCHANGED <<table, status>>

\* websocket_api.send raises another error (throttling, a payload too large, ...).
SendError(w) ==
    /\ ~Idle(w)
    /\ LET op == Head(wk[w].todo)
       IN  /\ op.op = "send"
           /\ wk' = [wk EXCEPT ![w] = After(w, send(op.cid, "error"), wk[w].record, wk[w].acc,
                                            Sent(w, op, "error"))]
    /\ UNCHANGED <<table, status>>

----------------------------------------------------------------------------
(* Message bodies *)

T_empty  == <<>>
T_a      == <<"a">>
T_b      == <<"b">>
T_hi     == <<"h","i">>
T_nick   == <<"/","n","i","c","k">>
T_nick_  == <<"/","n","i","c","k"," ">>
T_nick_b == <<"/","n","i","c","k"," ","b">>
T_join   == <<"/","j","o","i","n">>
T_join_p == <<"/","j","o","i","n"," ","p">>
T_join_q == <<"/","J","O","I","N"," ","q">>
T_quit   == <<"/","q","u","i","t">>
T_ls     == <<"/","l","s">>
T_x      == <<"/","x"," ","y">>

\* The bodies of the model: texts any connection may send, and the ones a user
\* who has not been given a name yet sends as the name.
TextsSeq  == {T_empty, T_a, T_hi, T_nick_, T_join, T_join_p, T_join_q, T_ls, T_x}
LoginsSeq == {T_empty, T_a}

----------------------------------------------------------------------------
(* Specifications *)

NumConnsSeq == 2

InitOf(nconns, nworkers) ==
    /\ table = {}
    /\ status = [c \in 1..nconns |-> "new"]
    /\ wk = [w \in 1..nworkers |-> IdleWorker]

\* c has a name: the next body it sends is a command or a text, not a name.
Named(c) == Truthy(get_record_by_connection(table, c), S_username)

NextOf(Texts, Logins) ==
    \/ \E w \in Workers, c \in Conns : Connect(w, c)
    \/ \E c \in Conns : Close(c)
    \/ \E w \in Workers, c \in Conns : Disconnect(w, c)
    \/ \E w \in Workers, c \in Conns :
          /\ Idle(w)
          /\ \E t \in (IF Named(c) THEN Texts ELSE Logins) : Message(w, c, t)
    \/ \E w \in Workers : Query(w)
    \/ \E w \in Workers : PutItem(w)
    \/ \E w \in Workers : DeleteItem(w)
    \/ \E w \in Workers : SendOk(w)
    \/ \E w \in Workers : SendGone(w)
    \/ \E w \in Workers : SendError(w)

\* Events are handled one at a time, each to completion.
InitSeq == InitOf(NumConnsSeq, 1)
NextSeq == NextOf(TextsSeq, LoginsSeq) \/ \E w \in Workers : Scan(w)
SpecSeq == InitSeq /\ [][NextSeq]_vars

\* Events are handled by concurrent workers, whose requests interleave.
TextsConc  == {T_a, T_join_p, T_join_q}
LoginsConc == {T_a}

NumConns   == 1
NumWorkers == 2

Init == InitOf(NumConns, NumWorkers)
Next == NextOf(TextsConc, LoginsConc)
Spec == Init /\ [][Next]_vars

----------------------------------------------------------------------------
(* What the claims speak of *)

Range(f) == {f[i] : i \in DOMAIN f}

\* The worker has handled an event to its end (normally or by an exception).
Done(w) == Idle(w) /\ wk[w].kind # "idle"

\* The rows of a connection, and its room-membership and identity rows.
Rows(c)         == {r \in table : r.PK = c}
RoomRows(c)     == {r \in Rows(c) : SubSeq(r.SK, 1, 5) = S_room \o <<"_">>}
IdentityRows(c) ==
    {r \in Rows(c) : Len(r.SK) >= 9 /\ SubSeq(r.SK, 1, 9) = S_username \o <<"_">>}

\* listRoomMembers(r) contains c
IsMember(c, r) == c \in Range(get_connection_ids_by_room(table, r))

\* Every room name a row or a body of the model can carry.
RoomNames == list_rooms(table) \cup {<<"p">>, <<"q">>, <<>>}

\* c has no row and is in no room listing.
Clean(c) == Rows(c) = {} /\ \A r \in RoomNames : ~IsMember(c, r)

\* The command name and the arguments of a body that starts with "/".
CommandName(text) == Lower(Head(Split(Tail(text), " ")))
CommandArgs(text) == Tail(Split(Tail(text), " "))

\* The worker handled the message of a connection that had a name when the
\* handler loaded its record.
NamedMessage(w) ==
    /\ Done(w)
    /\ wk[w].kind = "message"
    /\ Truthy(wk[w].record, S_username)

\* ... and the body was the command `name`.
CommandDone(w, name) ==
    /\ NamedMessage(w)
    /\ StartsWith(wk[w].text, "/")
    /\ CommandName(wk[w].text) = name

----------------------------------------------------------------------------
\* C1: when the /join B of a named connection h that is still connected has been
\* handled to its end without an exception (events handled one after the other),
\* h is listed in room B, is listed in no other room (in particular not in the
\* room A it had joined before) and has exactly one room-membership row.
C1_JoinLeavesOneRoom ==
    \A w \in Workers :
        ( /\ CommandDone(w, C_join)
          /\ CommandArgs(wk[w].text) # <<>>
          /\ wk[w].result = "ok"
          /\ status[wk[w].cid] = "open" )
        => LET h == wk[w].cid
               B == CommandArgs(wk[w].text)[1]
           IN  /\ IsMember(h, B)
               /\ \A A \in RoomNames \ {B} : ~IsMember(h, A)
               /\ RoomRows(h) = {Row(h, Fmt_room(B))}

\* h was in room A when its /join B, with B different from A, was handled.
C1_Witness ==
    \E w \in Workers :
        /\ CommandDone(w, C_join)
        /\ CommandArgs(wk[w].text) # <<>>
        /\ wk[w].result = "ok"
        /\ status[wk[w].cid] = "open"
        /\ HasKey(wk[w].record, S_room)
        /\ Get(wk[w].record, S_room) # CommandArgs(wk[w].text)[1]
        /\ IsMember(wk[w].cid, CommandArgs(wk[w].text)[1])

----------------------------------------------------------------------------
\* C3: once a connection has a name, it has a non-empty username after every
\* message of it that is handled to its end while it stays connected (so that
\* no cleanup destroys its session), whatever the body, "/nick " with any
\* arguments included.
C3_UsernameStaysNonEmpty ==
    \A w \in Workers :
        ( /\ NamedMessage(w)
          /\ wk[w].result = "ok"
          /\ status[wk[w].cid] = "open" )
        => Named(wk[w].cid)

----------------------------------------------------------------------------
\* The worker handled the first message of a connection: the record the
\* handler loaded was the one create_connection leaves, username '' and no room.
FirstMessage(w) ==
    /\ Done(w)
    /\ wk[w].kind = "message"
    /\ wk[w].record = {<<S_username, <<>> >>}

\* C4: after the connect event the username is the empty string, and after the
\* first message of a connection has been handled to its end (the connection
\* still connected) the username is non-empty, for any body.
C4_NamedAfterFirstMessage ==
    \A w \in Workers :
        /\ (Done(w) /\ wk[w].kind = "connect")
              => get_record_by_connection(table, wk[w].cid) = {<<S_username, <<>> >>}
        /\ (FirstMessage(w) /\ wk[w].result = "ok" /\ status[wk[w].cid] = "open")
              => Named(wk[w].cid)

----------------------------------------------------------------------------
\* The worker is inside delete_connection(c): at its query or at one of its deletes.
InDeleteConnection(w, c) ==
    /\ ~Idle(w)
    /\ Head(wk[w].todo).op \in {"dc_query", "dc_delete"}
    /\ Head(wk[w].todo).cid = c

\* An event of c is being handled.
EventInFlight(c) == \E w \in Workers : ~Idle(w) /\ wk[w].cid = c

\* The event the worker is handling, or has just handled, ran delete_connection(c)
\* to its end: as the disconnect event of c, or after a send to c met it gone.
Destroyed(w, c) ==
    /\ wk[w].kind # "idle"
    /\ ~InDeleteConnection(w, c)
    /\ \/ wk[w].kind = "disconnect" /\ wk[w].cid = c /\ Idle(w)
       \/ \E i \in 1..Len(wk[w].log) : wk[w].log[i].out = "gone" /\ wk[w].log[i].to = c

\* C5: with events handled one after the other and no store error, the step that
\* ends delete_connection(c) leaves no row of c in the table and c in no room
\* listing, whatever rows c had; and this stays so afterwards: no later step of
\* the event that ran it, and no step taken while no event of c is being handled,
\* brings a row of c back (only an event of c that starts later may).
C5_DestroyLeavesNothing ==
    [][ \A c \in Conns :
          /\ (\E w \in Workers : InDeleteConnection(w, c) /\ ~InDeleteConnection(w, c)')
                => Clean(c)'
          /\ (Clean(c) /\ \E w \in Workers : Destroyed(w, c)) => Clean(c)'
          /\ (Clean(c) /\ ~EventInFlight(c)) => Clean(c)' ]_vars

----------------------------------------------------------------------------
\* C6: a message of a connection whose partition has no username row is answered
\* as the login step: get_record_by_connection gives the username '' without an
\* error, the body becomes the name and the confirmation is sent.
C6_NoIdentityRowIsAnonymous ==
    \A w \in Workers :
        ( /\ Done(w)
          /\ wk[w].kind = "message"
          /\ ~HasKey(wk[w].record, S_username) )
        => /\ wk[w].result # "KeyError"
           /\ Len(wk[w].log) >= 1
           /\ wk[w].log[1].to = wk[w].cid
           /\ wk[w].log[1].msg.args = <<wk[w].text>>

----------------------------------------------------------------------------
\* The sends of one broadcast call of the worker: the positions in its log that
\* carry the list and the message of the call.
SendsOf(w, ids, msg) ==
    {i \in 1..Len(wk[w].log) : wk[w].log[i].ids = ids /\ wk[w].log[i].msg = msg}

\* The broadcast calls the worker made, each as <<list, message>>.
Broadcasts(w) ==
    {<<wk[w].log[i].ids, wk[w].log[i].msg>> : i \in {j \in 1..Len(wk[w].log) : wk[w].log[j].ids # <<>>}}

\* In the broadcast b exactly the member d was gone, and no send of the event met
\* another error.
OneDead(w, b, d) ==
    /\ \A i \in 1..Len(wk[w].log) : wk[w].log[i].out # "error"
    /\ \A i \in SendsOf(w, b[1], b[2]) : wk[w].log[i].out = "gone" <=> wk[w].log[i].to = d
    /\ \E i \in SendsOf(w, b[1], b[2]) : wk[w].log[i].to = d

\* C7: when an event has been handled in which a broadcast to the N listed
\* members of a room met exactly one of them gone and no other send error, every
\* other member got the message exactly once (N-1 deliveries, N attempts), the
\* handler ended without an exception, and the gone member has no row left and is
\* in no room listing, wherever it stood in the list.
C7_OneDeadMember ==
    \A w \in Workers :
        Done(w) =>
            \A b \in Broadcasts(w) : \A d \in Range(b[1]) :
                OneDead(w, b, d) =>
                    /\ Cardinality(SendsOf(w, b[1], b[2])) = Len(b[1])
                    /\ \A m \in Range(b[1]) \ {d} :
                          Cardinality({i \in SendsOf(w, b[1], b[2]) :
                                          wk[w].log[i].to = m /\ wk[w].log[i].out = "ok"}) = 1
                    /\ wk[w].result = "ok"
                    /\ Clean(d)

\* A broadcast to two members met the first one gone and delivered to the second.
C7_Witness ==
    \E w \in Workers :
        /\ Done(w)
        /\ \E b \in Broadcasts(w) :
              /\ Len(b[1]) >= 2
              /\ OneDead(w, b, b[1][1])
              /\ \E i \in SendsOf(w, b[1], b[2]) :
                    wk[w].log[i].to = b[1][Len(b[1])] /\ wk[w].log[i].out = "ok"
              /\ Clean(b[1][1])

----------------------------------------------------------------------------
\* C8: when an event has been handled, every broadcast call in it has attempted
\* exactly one send to every id of its list, whatever the outcome of the sends
\* to the other ids.
C8_BroadcastAttemptsAll ==
    \A w \in Workers :
        Done(w) =>
            \A b \in Broadcasts(w) : \A m \in Range(b[1]) :
                Cardinality({i \in SendsOf(w, b[1], b[2]) : wk[w].log[i].to = m}) = 1

----------------------------------------------------------------------------
\* C9: a command of a named, connected h whose lower-cased name is not in the
\* command table ends without an exception, with exactly one outbound message,
\* "Unknown command: <name>" to h.
C9_UnknownCommandReply ==
    \A w \in Workers :
        ( /\ NamedMessage(w)
          /\ StartsWith(wk[w].text, "/")
          /\ CommandName(wk[w].text) \notin command_table
          /\ status[wk[w].cid] = "open" )
        => /\ wk[w].result \notin {"TypeError"}
           /\ Len(wk[w].log) = 1
           /\ wk[w].log[1].to = wk[w].cid
           /\ wk[w].log[1].msg = Msg("Unknown command: %s", <<CommandName(wk[w].text)>>)

----------------------------------------------------------------------------
\* C10: "/join" without a room name, from a named h, ends in a plain-text reply
\* to h only and not in an exception of the handler.
C10_JoinWithoutRoomReported ==
    \A w \in Workers :
        ( /\ CommandDone(w, C_join)
          /\ CommandArgs(wk[w].text) = <<>> )
        => /\ wk[w].result # "IndexError"
           /\ Len(wk[w].log) = 1
           /\ wk[w].log[1].to = wk[w].cid

----------------------------------------------------------------------------
\* C2: in every reachable state, with the requests of concurrently handled
\* events interleaved in any way, every connection has at most one
\* room-membership row.
C2_AtMostOneRoomRow == \A c \in Conns : Cardinality(RoomRows(c)) <= 1

----------------------------------------------------------------------------
\* The worker handled a body that is not a command, from a connection that had
\* a name when the handler loaded its record.
PlainText(w) == NamedMessage(w) /\ ~StartsWith(wk[w].text, "/")

\* username + ": " + text of Handler._handle_text
TextLine(w) == Msg("%s: %s", <<Get(wk[w].record, S_username), wk[w].text>>)

\* The connections a send of the event was addressed to with the message msg.
SendsTo(w, m, msg) ==
    {i \in 1..Len(wk[w].log) : wk[w].log[i].to = m /\ wk[w].log[i].msg = msg}

\* C11: when the plain text t of a named h in room R has been handled (events one
\* after the other), username + ": " + t was sent exactly once to every
\* connection that get_connection_ids_by_room(R) listed at that moment, h among
\* them, and nothing was sent to anyone else; when h is in no room, nothing was
\* sent to a connection other than h.
C11_TextReachesRoomOnce ==
    \A w \in Workers :
        PlainText(w) =>
            LET h   == wk[w].cid
                log == wk[w].log
            IN  IF HasKey(wk[w].record, S_room)
                THEN /\ Len(log) >= 1
                     /\ LET ids == Range(log[1].ids)
                            R   == Get(wk[w].record, S_room)
                        IN  /\ h \in ids
                            /\ ids = {c \in Conns : IsMember(c, R)}
                                         \cup {log[i].to : i \in {j \in 1..Len(log) : log[j].out = "gone"}}
                            /\ \A m \in ids : Cardinality(SendsTo(w, m, TextLine(w))) = 1
                            /\ \A i \in 1..Len(log) :
                                  log[i].to \in ids /\ log[i].msg = TextLine(w)
                ELSE \A i \in 1..Len(log) : log[i].to = h

----------------------------------------------------------------------------
(* Events handled one at a time, with the commands on names and rooms *)

TextsRoom  == {T_nick, T_nick_b, T_join_p, T_join_q, T_quit, T_ls}
LoginsRoom == {T_a}

NumConnsRoom == 2

InitRoom == InitOf(NumConnsRoom, 1)
NextRoom == NextOf(TextsRoom, LoginsRoom) \/ \E w \in Workers : Scan(w)
SpecRoom == InitRoom /\ [][NextRoom]_vars

\* No event is being handled.
Quiet == \A w \in Workers : Idle(w)

\* The room names the bodies of the model can put in a row.
ModelRooms == {<<"p">>, <<"q">>, <<>>}

\* C12: in every reachable state with no event in flight, list_rooms() is
\* exactly the set of the room names r whose get_connection_ids_by_room(r) is not
\* empty: a room whose last member left (by /quit, by joining another room or by
\* its disconnect) is not listed, and no room that has a member is missing.
C12_ListedRoomsHaveMembers ==
    Quiet => list_rooms(table) =
                 {r \in ModelRooms : get_connection_ids_by_room(table, r) # <<>>}

\* The /quit of the last member of a room has been handled: the room is not
\* listed any more, while another room that still has a member is.
C12_Witness ==
    /\ Quiet
    /\ \E w \in Workers :
          /\ CommandDone(w, C_quit)
          /\ HasKey(wk[w].record, S_room)
          /\ Get(wk[w].record, S_room) \notin list_rooms(table)
    /\ list_rooms(table) # {}

----------------------------------------------------------------------------
\* The body is "/nick" without an argument.
NickEcho(text) ==
    /\ StartsWith(text, "/")
    /\ CommandName(text) = C_nick
    /\ CommandArgs(text) = <<>>

\* The worker is handling "/nick" without an argument, of a connection that has
\* a name and is still connected.
HandlingNickEcho(w) ==
    /\ ~Idle(w)
    /\ wk[w].kind = "message"
    /\ NickEcho(wk[w].text)
    /\ status[wk[w].cid] = "open"
    /\ IF Head(wk[w].todo).op = "load"
       THEN Named(wk[w].cid)
       ELSE Truthy(wk[w].record, S_username)

\* C13: "/nick" without an argument, from a named h that stays connected, makes
\* no put_item and no delete_item (every request of its handler is the read of
\* h's record or a send to h), so the username and the room of h and of everyone
\* else are what they were; and the handler sends exactly one message, to h, that
\* carries the username h has.
C13_NickEchoChangesNothing ==
    \A w \in Workers :
        /\ HandlingNickEcho(w)
              => \A i \in 1..Len(wk[w].todo) :
                    /\ wk[w].todo[i].op \in {"load", "send"}
                    /\ wk[w].todo[i].cid = wk[w].cid
        /\ (CommandDone(w, C_nick) /\ NickEcho(wk[w].text) /\ status[wk[w].cid] = "open")
              => /\ get_record_by_connection(table, wk[w].cid) = wk[w].record
                 /\ Len(wk[w].log) = 1
                 /\ wk[w].log[1].to = wk[w].cid
                 /\ wk[w].log[1].msg =
                       Msg("Current nickname: %s",
                           <<Get(get_record_by_connection(table, wk[w].cid), S_username)>>)

\* "/nick" of a connection that is in a room and was renamed before has been
\* answered, and the answer was delivered.
C13_Witness ==
    \E w \in Workers :
        /\ CommandDone(w, C_nick)
        /\ NickEcho(wk[w].text)
        /\ status[wk[w].cid] = "open"
        /\ HasKey(wk[w].record, S_room)
        /\ Get(wk[w].record, S_username) = <<"b">>
        /\ wk[w].log[1].out = "ok"
        /\ \E c \in Conns \ {wk[w].cid} : Named(c)

----------------------------------------------------------------------------
\* set_username(h, old, new) of the worker has just returned: the next request
\* of the handler is the send that confirms the name (Handler._handle_login_message,
\* Handler._nick).
NameJustSet(w) ==
    /\ ~Idle(w)
    /\ wk[w].kind = "message"
    /\ wk[w].log = <<>>
    /\ Head(wk[w].todo).op = "send"
    /\ Head(wk[w].todo).msg.fmt \in
          {"Using nickname: %s\nType /help for list of commands.", "Nickname is: %s"}

\* The name the confirmation carries: the new name given to set_username.
NewName(w) == Head(wk[w].todo).msg.args[1]

\* The worker answered the /ls of a connection that is in a room and is still
\* connected.
ListedRoom(w) ==
    /\ CommandDone(w, C_ls)
    /\ Truthy(wk[w].record, S_room)
    /\ wk[w].result = "ok"
    /\ status[wk[w].cid] = "open"

\* C14: when set_username(h, old, new) has returned (old the name h had, the
\* empty name of a new session and old = new included), the username of h's
\* record is new and h has exactly one identity row; and the answer to the /ls
\* of a member of a room lists, for every member of the room, the username its
\* record has now (the new name, not the old one).
C14_RenameReplacesName ==
    \A w \in Workers :
        /\ NameJustSet(w)
              => /\ HasKey(get_record_by_connection(table, wk[w].cid), S_username)
                 /\ Get(get_record_by_connection(table, wk[w].cid), S_username) = NewName(w)
                 /\ Cardinality(IdentityRows(wk[w].cid)) = 1
        /\ ListedRoom(w)
              => LET ids == get_connection_ids_by_room(table, Get(wk[w].record, S_room))
                 IN  /\ Len(wk[w].acc) = Len(ids)
                     /\ \A i \in 1..Len(ids) :
                           wk[w].acc[i] = Get(get_record_by_connection(table, ids[i]), S_username)
                     /\ wk[w].log = <<[to |-> wk[w].cid, msg |-> Msg("\\n.join", wk[w].acc),
                                       out |-> "ok", ids |-> <<>>]>>

\* A member of a room asked /ls after another member had been renamed to "b":
\* the list carries "b" for it.
C14_Witness ==
    \E w \in Workers :
        /\ ListedRoom(w)
        /\ LET ids == get_connection_ids_by_room(table, Get(wk[w].record, S_room))
           IN  \E i \in 1..Len(ids) :
                  /\ ids[i] # wk[w].cid
                  /\ wk[w].acc[i] = <<"b">>
                  /\ IdentityRows(ids[i]) = {Row(ids[i], Fmt_username(<<"b">>))}

----------------------------------------------------------------------------
(* Faults: a connect event delivered again, and table requests that fail   *)
(* inside Storage.delete_connection                                        *)

\* app.py connect, for a connection that has been connected already.
DupConnect(w, c) ==
    /\ Idle(w)
    /\ status[c] = "open"
    /\ ConnectDone(c)
    /\ wk' = [wk EXCEPT ![w] = Begin("connect", c, <<>>, create_connection(c))]
    /\ UNCHANGED <<table, status>>

\* The requests left once delete_connection has been left at its first
\* request: the deletes of its loop that were still due are not made.
RECURSIVE AfterDeleteConnection(_, _)
AfterDeleteConnection(connection_id, todo) ==
    IF todo # <<>> /\ Head(todo).op = "dc_delete" /\ Head(todo).cid = connection_id
    THEN AfterDeleteConnection(connection_id, Tail(todo))
    ELSE todo

\* Storage.delete_connection letting the exception of a table request through.
delete_connection_reraising(connection_id, todo) == Raise("StoreError")

\* Storage.delete_connection, `except Exception as e: print(e)`: the function
\* returns, and its caller goes on.
delete_connection_except(connection_id, todo) ==
    Do(AfterDeleteConnection(connection_id, Tail(todo)))

\* The query or a delete_item of delete_connection raises (a ClientError).
DcStoreError(w) ==
    /\ ~Idle(w)
    /\ LET op   == Head(wk[w].todo)
           plan == delete_connection_except(op.cid, wk[w].todo)
           todo == IF plan.err = "none" THEN plan.todo ELSE <<>>
       IN  /\ op.op \in {"dc_query", "dc_delete"}
           /\ wk' = [wk EXCEPT ![w] =
                        [wk[w] EXCEPT !.todo   = todo,
                                      !.result = IF plan.err # "none" THEN plan.err
                                                 ELSE IF todo = <<>> THEN "ok" ELSE "none"]]
    /\ UNCHANGED <<table, status>>

TextsFault  == {T_hi, T_join_p}
LoginsFault == {T_a}

NumConnsFault == 2

InitFault == InitOf(NumConnsFault, 1)
NextFault ==
    \/ NextOf(TextsFault, LoginsFault)
    \/ \E w \in Workers, c \in Conns : DupConnect(w, c)
    \/ \E w \in Workers : DcStoreError(w)
SpecFault == InitFault /\ [][NextFault]_vars

----------------------------------------------------------------------------
\* C15: the connect event of a connection that already has a session (without
\* a name, with a name, with a name and a room) raises nothing, leaves the
\* record get_record_by_connection returns as it was, and leaves the connection
\* with exactly one identity row.
C15_DuplicateConnectIsNoOp ==
    [][ \A w \in Workers :
          ( /\ ~Idle(w)
            /\ wk[w].kind = "connect"
            /\ Rows(wk[w].cid) # {}
            /\ wk'[w] # wk[w] )
          => /\ wk'[w].result = "ok"
             /\ get_record_by_connection(table', wk[w].cid)
                   = get_record_by_connection(table, wk[w].cid)
             /\ Cardinality(IdentityRows(wk[w].cid)') = 1 ]_vars

----------------------------------------------------------------------------
\* C16: a step of delete_connection(c) never ends the event with an exception,
\* whether the rows of c are there or not and whether its query or a delete
\* fails, and it changes no row of another connection; the disconnect event
\* ends normally.
C16_DestroyNeverRaises ==
    [][ \A w \in Workers : \A c \in Conns :
          (InDeleteConnection(w, c) /\ wk'[w] # wk[w])
          => /\ wk'[w].result \in {"none", "ok"}
             /\ wk[w].kind = "disconnect" => (Idle(w)' => wk'[w].result = "ok")
             /\ \A d \in Conns \ {c} : Rows(d)' = Rows(d) ]_vars

\* A disconnect event ended normally although a request of delete_connection
\* had failed (rows of the connection are left), the other connections' rows
\* being there.
C16_Witness ==
    \E w \in Workers :
        /\ Done(w)
        /\ wk[w].kind = "disconnect"
        /\ wk[w].result = "ok"
        /\ Rows(wk[w].cid) # {}
        /\ \E d \in Conns \ {wk[w].cid} : RoomRows(d) # {}

----------------------------------------------------------------------------
(* Concurrent workers, with the commands that rename *)

T_nick_c == <<"/","n","i","c","k"," ","c">>

TextsNick  == {T_nick_b, T_nick_c, T_join_p, T_quit}
LoginsNick == {T_a, T_b}

NumConnsNick   == 1
NumWorkersNick == 2

InitNick == InitOf(NumConnsNick, NumWorkersNick)
NextNick == NextOf(TextsNick, LoginsNick)
SpecNick == InitNick /\ [][NextNick]_vars

\* The worker handled, to its end and without an exception, a message that sets
\* the name: the first message of a connection, or /nick with an argument.
Renamed(w) ==
    /\ Done(w)
    /\ wk[w].kind = "message"
    /\ wk[w].result = "ok"
    /\ \/ FirstMessage(w)
       \/ CommandDone(w, C_nick) /\ CommandArgs(wk[w].text) # <<>>

\* The name that message asked for.
RequestedName(w) ==
    IF FirstMessage(w) THEN wk[w].text ELSE CommandArgs(wk[w].text)[1]

\* C17: when two messages that set the name of the same connection (two /nick
\* with an argument of a named connection, or two first messages of a new one)
\* have been handled by two workers, in any interleaving, and the connection is
\* still connected, it has exactly one identity row and its username is one of
\* the two names asked for.
C17_LastRenameWins ==
    \A w1 \in Workers : \A w2 \in Workers \ {w1} :
        ( /\ Renamed(w1)
          /\ Renamed(w2)
          /\ wk[w1].cid = wk[w2].cid
          /\ FirstMessage(w1) <=> FirstMessage(w2)
          /\ status[wk[w1].cid] = "open" )
        => /\ Cardinality(IdentityRows(wk[w1].cid)) = 1
           /\ HasKey(get_record_by_connection(table, wk[w1].cid), S_username)
           /\ Get(get_record_by_connection(table, wk[w1].cid), S_username)
                 \in {RequestedName(w1), RequestedName(w2)}

----------------------------------------------------------------------------
\* C18: once the disconnect event of h and every message event of h that was
\* in flight with it (a first message, a /join) have been handled, in any
\* interleaving of the two workers, the table holds no row of h and h is in no
\* room listing.
C18_NothingLeftAfterDisconnect ==
    \A c \in Conns : (status[c] = "ended" /\ ~EventInFlight(c)) => Clean(c)

----------------------------------------------------------------------------
\* The worker handled "/nick <new>" of a named connection whose loaded record
\* had a room.
RenamedInRoom(w) ==
    /\ CommandDone(w, C_nick)
    /\ CommandArgs(wk[w].text) # <<>>
    /\ Truthy(wk[w].record, S_room)

\* "<old> is now known as <new>." of Handler._nick
RenameNotice(w) ==
    Msg("%s is now known as %s.",
        <<Get(wk[w].record, S_username), CommandArgs(wk[w].text)[1]>>)

\* C20: "/nick <new>" of an h whose loaded record has the room R ends without
\* the exception of list.remove, whatever other events (a /quit, a disconnect, a
\* cleanup that removes h from R after the record was loaded) are interleaved
\* with it; the notice is never sent to h, and when the handler ends normally it
\* was sent once to every other connection the lookup of R listed.
C20_RenameNoticeToOthers ==
    \A w \in Workers :
        RenamedInRoom(w) =>
            /\ wk[w].result # "ValueError"
            /\ SendsTo(w, wk[w].cid, RenameNotice(w)) = {}
            /\ wk[w].result = "ok" =>
                  \A b \in Broadcasts(w) :
                      b[2] = RenameNotice(w) =>
                          \A m \in Range(b[1]) : Cardinality(SendsTo(w, m, b[2])) = 1

----------------------------------------------------------------------------
\* "<username> left room." of Handler._quit
LeftNotice(w) == Msg("%s left room.", <<Get(wk[w].record, S_username)>>)

\* The connections the sends of the event met gone (their rows were removed by
\* the cleanup of Sender.send).
MetGone(w) == {wk[w].log[i].to : i \in {j \in 1..Len(wk[w].log) : wk[w].log[j].out = "gone"}}

\* C19: when the /quit of a named h in room R, h still connected, has been
\* handled (events one after the other), h has no room row and is in no room
\* listing, the first send was "Left chat room "R"" to h, and "<username> left
\* room." was sent exactly once to every member R had after the removal, to
\* nobody else and never to h. The /quit of a connection in no room sends
\* nothing and leaves its record as it was.
C19_QuitLeavesRoom ==
    \A w \in Workers :
        (CommandDone(w, C_quit) /\ status[wk[w].cid] = "open") =>
            LET h   == wk[w].cid
                log == wk[w].log
            IN  IF HasKey(wk[w].record, S_room)
                THEN LET R         == Get(wk[w].record, S_room)
                         remaining == {c \in Conns : IsMember(c, R)} \cup MetGone(w)
                     IN  /\ RoomRows(h) = {}
                         /\ \A r \in ModelRooms : ~IsMember(h, r)
                         /\ Len(log) >= 1
                         /\ log[1].to = h
                         /\ log[1].msg = Msg("Left chat room \"%s\"", <<R>>)
                         /\ SendsTo(w, h, LeftNotice(w)) = {}
                         /\ \A m \in remaining : Cardinality(SendsTo(w, m, LeftNotice(w))) = 1
                         /\ \A i \in 2..Len(log) :
                               log[i].msg = LeftNotice(w) /\ log[i].to \in remaining
                ELSE /\ log = <<>>
                     /\ get_record_by_connection(table, h) = wk[w].record

----------------------------------------------------------------------------
\* C21: in every reachable state, every connection that has a room-membership
\* row also has an identity row with a non-empty username, so that the lookup
\* get_record_by_connection(c_id)['username'] of /ls finds a name for every id
\* the room lists and never raises KeyError.
C21_MembersAreNamed ==
    /\ \A c \in Conns :
          RoomRows(c) # {} =>
              /\ IdentityRows(c) # {}
              /\ Named(c)
    /\ \A w \in Workers :
          (CommandDone(w, C_ls) /\ Truthy(wk[w].record, S_room))
              => wk[w].result # "KeyError"

====
